---------------------------- MODULE Spec2Model ----------------------------
(***************************************************************************)
(* Beam-search decoding of Spec2Pep (pynovo/models/casanovo):              *)
(* beam_search_decode, _finish_beams, _cache_finished_beams,               *)
(* _get_topk_beams, _get_top_peptide, _calc_mass_error, _aa_pep_score.     *)
(*                                                                         *)
(* Numbers.  Masses and m/z are integers in units of 1e-5 Da.  Scores are  *)
(* exact rationals <<n, d>> (d > 0, reduced); <<0, 0>> is NaN.  A logit x  *)
(* is an integer in units of ln 2, so exp(x) is 2^x and a softmax is a     *)
(* rational.  Floating-point rounding is not modelled.                     *)
(***************************************************************************)
EXTENDS Integers, Sequences, FiniteSets, TLC

(***************************************************************************)
(* Bounds of the model.                                                    *)
(***************************************************************************)
MaxLength == 3

(***************************************************************************)
(* Rational arithmetic.                                                    *)
(***************************************************************************)
Abs(x) == IF x < 0 THEN -x ELSE x

RECURSIVE GCD(_, _)
GCD(a, b) == IF b = 0 THEN a ELSE GCD(b, a % b)

NaN == <<0, 0>>
IsNaN(q) == q[2] = 0
Rat(n, d) ==
    IF d = 0 THEN NaN
    ELSE LET g == GCD(Abs(n), Abs(d))
             s == IF d < 0 THEN -1 ELSE 1
         IN  <<(s * n) \div g, (s * d) \div g>>
RatInt(n) == <<n, 1>>
RatAdd(p, q) ==
    IF IsNaN(p) \/ IsNaN(q) THEN NaN
    ELSE Rat(p[1] * q[2] + q[1] * p[2], p[2] * q[2])
RatSub(p, q) ==
    IF IsNaN(p) \/ IsNaN(q) THEN NaN
    ELSE Rat(p[1] * q[2] - q[1] * p[2], p[2] * q[2])
RatDivInt(p, k) == IF IsNaN(p) THEN NaN ELSE Rat(p[1], p[2] * k)
\* IEEE comparisons: every comparison with NaN is false.
RatLT(p, q) == ~IsNaN(p) /\ ~IsNaN(q) /\ p[1] * q[2] < q[1] * p[2]
RatEQ(p, q) == ~IsNaN(p) /\ ~IsNaN(q) /\ p = q

RECURSIVE RatSum(_)
RatSum(s) == IF s = <<>> THEN RatInt(0) ELSE RatAdd(s[1], RatSum(Tail(s)))

RECURSIVE Pow2(_)
Pow2(n) == IF n = 0 THEN 1 ELSE 2 * Pow2(n - 1)

(***************************************************************************)
(* Residue vocabulary: decoder._aa2idx / _idx2aa and                       *)
(* peptide_mass_calculator.masses.  Token 0 is padding, tokens             *)
(* 1..NumResidues are the residues in dictionary order, and the stop       *)
(* token "$" is the last index.  A vocabulary gives each residue its mass  *)
(* and whether its name starts with "+" or "-" (N-terminal modification).  *)
(***************************************************************************)
NumResidues == Len(<<"G", "X", "Y">>)
vocab == NumResidues + 2
stop_token == NumResidues + 1
pad_token == 0
Residues == 1 .. NumResidues
Tokens == 0 .. (vocab - 1)

\* "G", "+42.011", "A": no residue has a negative mass.
VocabPlain ==
    [mass |-> <<5702146, 4201056, 7103711>>, nterm |-> {2}]
\* "G", "+42.011", "-17.027": one N-terminal residue with a negative mass.
VocabNeg ==
    [mass |-> <<5702146, 4201056, -1702655>>, nterm |-> {2, 3}]
\* "G", "-17.027", "-18.011": two residues with a negative mass.
VocabNeg2 ==
    [mass |-> <<5702146, -1702655, -1801056>>, nterm |-> {2, 3}]
Vocabularies == {VocabPlain, VocabNeg, VocabNeg2}

H2O == 1801056
Proton == 100728
IsotopeMass == 100335
PpmFactor == 1000000

(***************************************************************************)
(* Hyper-parameters and inputs of one decode call.  hparams holds the      *)
(* values __init__ stores on the model; precursors holds, per spectrum,    *)
(* the precursor charge and m/z (columns 1 and 2 of the precursor tensor). *)
(***************************************************************************)
VARIABLES hparams, precursors

batch == hparams.batch
n_beams == hparams.n_beams
max_length == hparams.max_length
min_peptide_len == hparams.min_peptide_len
top_match == hparams.top_match
precursor_mass_tol == hparams.precursor_mass_tol
isotope_error_range == hparams.isotope_error_range
masses == hparams.residues.mass
\* PeptideDecoder is constructed without a reverse argument: its default.
reverse == TRUE

Spectra == 0 .. (batch - 1)
Beams == 0 .. (batch * n_beams - 1)
Positions == 0 .. max_length

(***************************************************************************)
(* Sequence helpers (0-based slices of token rows).                        *)
(***************************************************************************)
\* row[: n] of a 0-based row, as a 1-based sequence.
Prefix(row, n) == [k \in 1 .. n |-> row[k - 1]]
Reverse(s) == [k \in 1 .. Len(s) |-> s[Len(s) + 1 - k]]
Last(s) == s[Len(s)]
Front(s) == SubSeq(s, 1, Len(s) - 1)
HasStop(s) == \E k \in 1 .. Len(s) : s[k] = stop_token
FirstStop(s) == CHOOSE k \in 1 .. Len(s) :
                    s[k] = stop_token /\ \A j \in 1 .. (k - 1) : s[j] # stop_token

\* decoder.detokenize: tokens to residue names (here: the token itself
\* stands for its name, 0 for the empty name of an unknown index), cut after
\* the first "$", reversed when the decoder decodes in reverse.
detokenize(toks) ==
    LET cut == IF HasStop(toks) THEN SubSeq(toks, 1, FirstStop(toks)) ELSE toks
    IN  IF reverse THEN Reverse(cut) ELSE cut

(***************************************************************************)
(* Masses.                                                                 *)
(***************************************************************************)
\* Tokens with a negative mass, in dictionary order (aa_neg_mass without
\* its leading None).
aa_neg_mass == SelectSeq([k \in 1 .. NumResidues |-> k], LAMBDA a : masses[a] < 0)
\* Indices of the residues whose name starts with "+" or "-".
n_term == hparams.residues.nterm

\* A lookup of a name that is no residue raises KeyError.
MassKeyError(seq) == \E k \in 1 .. Len(seq) : seq[k] \notin Residues

RECURSIVE SumMass(_)
SumMass(seq) == IF seq = <<>> THEN 0 ELSE masses[seq[1]] + SumMass(Tail(seq))

\* peptide_mass_calculator.mass(seq, charge): (sum + h2o) / charge + proton.
PeptideMz(seq, charge) == RatAdd(Rat(SumMass(seq) + H2O, charge), RatInt(Proton))

\* A variant that shifts the observed m/z up by the isotope mass instead of
\* down.
_calc_mass_error_shifted_up(calc_mz, obs_mz, charge, isotope) ==
    LET shifted == RatAdd(RatInt(obs_mz), Rat(isotope * IsotopeMass, charge))
        diff == RatSub(calc_mz, shifted)
    IN  Rat(diff[1], diff[2] * obs_mz)

\* _calc_mass_error without its final factor 10**6: the relative error
\* (calc_mz - (obs_mz - isotope * 1.00335 / charge)) / obs_mz as a rational;
\* the error in ppm is this value times PpmFactor.
_calc_mass_error(calc_mz, obs_mz, charge, isotope) ==
    LET shifted == RatSub(RatInt(obs_mz), Rat(isotope * IsotopeMass, charge))
        diff == RatSub(calc_mz, shifted)
    IN  Rat(diff[1], diff[2] * obs_mz)

\* d * 10**6 > tol and abs(d * 10**6) < tol, decided without forming the
\* product d[1] * 10**6 (n * F < T  <=>  n <= (T - 1) \div F for integers).
PpmAbove(d, tol) == d[1] > (tol * d[2]) \div PpmFactor
PpmAbsBelow(d, tol) == Abs(d[1]) <= (tol * d[2] - 1) \div PpmFactor

\* delta_mass_ppm: one error per isotope of the inclusive range.
delta_mass_ppm(calc_mz, precursor_mz, precursor_charge) ==
    [k \in 1 .. (isotope_error_range[2] - isotope_error_range[1] + 1) |->
        _calc_mass_error(calc_mz, precursor_mz, precursor_charge,
                         isotope_error_range[1] + k - 1)]

(***************************************************************************)
(* State of beam_search_decode.                                            *)
(*   tokens[i][p]   token of flat beam i at position p (0 = padding)       *)
(*   scores[i][p]   the logits over the vocabulary (a tuple indexed by     *)
(*                  token + 1), or NaNRow where nothing was written        *)
(*   pred_cache[b]  the heap list of spectrum b                            *)
(*   finished_beams, beam_fits_precursor, discarded_beams                  *)
(*                  the vectors _finish_beams returned for this step       *)
(*   pc, step, i    position in the loop; i is the loop variable of        *)
(*                  _cache_finished_beams                                  *)
(*   result         the list beam_search_decode returns                    *)
(* History variables (read by no action):                                  *)
(*   n_decoder_calls, n_finish_calls                                       *)
(*                  calls of self.decoder and of _finish_beams             *)
(*   offered[b]     the entries passed to heapadd for spectrum b, in order *)
(*   skipped[b]     the peptides skipped as already cached, in order       *)
(*   source_finished[k]                                                    *)
(*                  the beam that the last _get_topk_beams continued into  *)
(*                  slot k was finished or discarded                       *)
(*   stopped[b]     at some step every beam of spectrum b was finished or  *)
(*                  discarded                                              *)
(***************************************************************************)
VARIABLES tokens, scores, pred_cache, finished_beams, beam_fits_precursor,
          discarded_beams, pc, step, i, result, n_decoder_calls,
          n_finish_calls, offered, skipped, source_finished, stopped

vars == <<hparams, precursors, tokens, scores, pred_cache, finished_beams,
          beam_fits_precursor, discarded_beams, pc, step, i, result,
          n_decoder_calls, n_finish_calls, offered, skipped, source_finished, stopped>>

NaNRow == <<>>
Logit(row, v) == row[v + 1]
\* A variant that takes every beam for a beam of the first spectrum.
spec_idx_of_first(k) == 0

spec_idx_of(k) == k \div n_beams

(***************************************************************************)
(* _finish_beams                                                           *)
(***************************************************************************)
ends_stop_token(toks, st, k) == toks[k][st] = stop_token

final_pos(toks, st, k) == IF ends_stop_token(toks, st, k) THEN st - 1 ELSE st

multiple_mods(toks, st, k) ==
    /\ toks[k][final_pos(toks, st, k)] \in n_term
    /\ toks[k][final_pos(toks, st, k) - 1] \in n_term

\* A variant whose mask ends one position earlier, at final_pos - 2.
internal_mods_before_last_but_one(toks, st, k) ==
    \E p \in 0 .. (final_pos(toks, st, k) - 2) : toks[k][p] \in n_term

\* mask = (final_pos - 1) >= arange(length): positions 0 .. final_pos - 1.
internal_mods(toks, st, k) ==
    \E p \in 0 .. (final_pos(toks, st, k) - 1) : toks[k][p] \in n_term

\* A variant that does not discard a beam for the pad token.
discarded_early_no_pad(toks, st, k) ==
    st > 1 /\ (multiple_mods(toks, st, k) \/ internal_mods(toks, st, k))

\* A variant that looks for internal modifications from step 1 on.
discarded_early_from_step_one(toks, st, k) ==
    \/ toks[k][st] = pad_token
    \/ st > 0 /\ internal_mods(toks, st, k)
    \/ st > 1 /\ multiple_mods(toks, st, k)

\* discarded_beams before the per-beam loop (lines 371-391).
discarded_early(toks, st, k) ==
    \/ toks[k][st] = pad_token
    \/ st > 1 /\ (multiple_mods(toks, st, k) \/ internal_mods(toks, st, k))

\* The peptide of the per-beam loop: detokenized, with the stop token
\* omitted, and peptide_len (the length of pred_tokens, minus one when a stop
\* token was omitted).
StripsStop(pep) ==
    IF reverse THEN pep[1] = stop_token ELSE Last(pep) = stop_token
peptide_of(toks, st, k) ==
    LET pep == detokenize(Prefix(toks[k], st + 1))
    IN  IF StripsStop(pep) THEN (IF reverse THEN Tail(pep) ELSE Front(pep)) ELSE pep
peptide_len_of(toks, st, k) ==
    IF StripsStop(detokenize(Prefix(toks[k], st + 1))) THEN st ELSE st + 1

too_short(toks, st, k) ==
    ends_stop_token(toks, st, k) /\ peptide_len_of(toks, st, k) < min_peptide_len

\* A variant that asks every isotope to be within the tolerance.
any_fits_every_isotope(ds) ==
    \A k \in 1 .. Len(ds) : PpmAbsBelow(ds[k], precursor_mass_tol)

any_fits(ds) == \E k \in 1 .. Len(ds) : PpmAbsBelow(ds[k], precursor_mass_tol)
\* A two-sided variant: every isotope is off by more than the tolerance,
\* above or below.
all_exceed_two_sided(ds) ==
    \A k \in 1 .. Len(ds) :
        \/ PpmAbove(ds[k], precursor_mass_tol)
        \/ PpmAbove(<<-ds[k][1], ds[k][2]>>, precursor_mass_tol)

all_exceed(ds) == \A k \in 1 .. Len(ds) : PpmAbove(ds[k], precursor_mass_tol)

\* A variant in which a variant that exceeds the precursor counts as a
\* match too.
RECURSIVE mass_loop_exceed_matches(_, _, _, _, _, _)
mass_loop_exceed_matches(peptide, aas, k, fin, charge, mz) ==
    IF k > Len(aas) THEN <<FALSE, FALSE>>
    ELSE LET aa == aas[k]
             calc_peptide == IF aa = 0 THEN peptide ELSE Append(peptide, aa)
         IN  IF MassKeyError(calc_peptide)
             THEN mass_loop_exceed_matches(peptide, aas, k + 1, fin, charge, mz)
             ELSE LET ds == delta_mass_ppm(PeptideMz(calc_peptide, charge), mz, charge)
                      matches == aa = 0 /\ any_fits(ds)
                      exceeds == ~matches /\ (fin \/ aa # 0) /\ all_exceed(ds)
                  IN  IF matches \/ exceeds THEN <<TRUE, exceeds>>
                      ELSE mass_loop_exceed_matches(peptide, aas, k + 1, fin, charge, mz)

\* A variant in which a failed mass lookup counts as exceeding the precursor.
RECURSIVE mass_loop_keyerror_exceeds(_, _, _, _, _, _)
mass_loop_keyerror_exceeds(peptide, aas, k, fin, charge, mz) ==
    IF k > Len(aas) THEN <<FALSE, FALSE>>
    ELSE LET aa == aas[k]
             calc_peptide == IF aa = 0 THEN peptide ELSE Append(peptide, aa)
         IN  IF MassKeyError(calc_peptide)
             THEN <<FALSE, TRUE>>
             ELSE LET ds == delta_mass_ppm(PeptideMz(calc_peptide, charge), mz, charge)
                      matches == aa = 0 /\ any_fits(ds)
                      exceeds == ~matches /\ (fin \/ aa # 0) /\ all_exceed(ds)
                  IN  IF matches \/ exceeds THEN <<matches, exceeds>>
                      ELSE mass_loop_keyerror_exceeds(peptide, aas, k + 1, fin, charge, mz)

\* One pass of "for aa in ..." from its k-th element; aa = 0 stands for None.
\* The result is <<matches_precursor_mz, exceeds_precursor_mz>> after the loop.
RECURSIVE mass_loop(_, _, _, _, _, _)
mass_loop(peptide, aas, k, fin, charge, mz) ==
    IF k > Len(aas) THEN <<FALSE, FALSE>>
    ELSE LET aa == aas[k]
             calc_peptide == IF aa = 0 THEN peptide ELSE Append(peptide, aa)
         IN  IF MassKeyError(calc_peptide)
             THEN mass_loop(peptide, aas, k + 1, fin, charge, mz)
             ELSE LET ds == delta_mass_ppm(PeptideMz(calc_peptide, charge), mz, charge)
                      matches == aa = 0 /\ any_fits(ds)
                      exceeds == ~matches /\ (fin \/ aa # 0) /\ all_exceed(ds)
                  IN  IF matches \/ exceeds THEN <<matches, exceeds>>
                      ELSE mass_loop(peptide, aas, k + 1, fin, charge, mz)

\* <<matches_precursor_mz, exceeds_precursor_mz>> of beam k (lines 418-465).
mass_check(toks, st, k) ==
    LET fin == ends_stop_token(toks, st, k)
        aas == IF fin THEN <<0>> ELSE <<0>> \o aa_neg_mass
        p == precursors[spec_idx_of(k)]
    IN  mass_loop(peptide_of(toks, st, k), aas, 1, fin, p.charge, p.mz)

\* The three vectors _finish_beams returns.
discarded_of(toks, st, k) == discarded_early(toks, st, k) \/ too_short(toks, st, k)
finished_of(toks, st, k) ==
    \/ ends_stop_token(toks, st, k)
    \/ ~discarded_of(toks, st, k) /\ mass_check(toks, st, k)[2]
fits_of(toks, st, k) ==
    /\ ~discarded_of(toks, st, k)
    /\ (ends_stop_token(toks, st, k) \/ mass_check(toks, st, k)[2])
    /\ mass_check(toks, st, k)[1]

(***************************************************************************)
(* Scores of a finished beam.                                              *)
(***************************************************************************)
RECURSIVE MinLogit(_)
MinLogit(row) ==
    IF Len(row) = 1 THEN row[1]
    ELSE LET m == MinLogit(Tail(row)) IN IF row[1] < m THEN row[1] ELSE m

RECURSIVE SumPow2(_, _)
SumPow2(row, m) ==
    IF row = <<>> THEN 0 ELSE Pow2(row[1] - m) + SumPow2(Tail(row), m)

\* self.softmax over the vocabulary axis, at token v; NaN on an unwritten row.
softmax(row, v) ==
    IF row = NaNRow THEN NaN
    ELSE LET m == MinLogit(row)
         IN  Rat(Pow2(Logit(row, v) - m), SumPow2(row, m))

\* np.mean of a non-empty array.
mean(xs) == RatDivInt(RatSum(xs), Len(xs))

\* Variant of _aa_pep_score that subtracts the penalty whether or not the
\* peptide fits the precursor; C6_GreedyScore does not hold of it.
_aa_pep_score_penalised(aa_scores, fits_precursor_mz) ==
    LET peptide_score == mean(aa_scores)
        new_aa == [k \in 1 .. Len(aa_scores) |->
                      RatDivInt(RatAdd(aa_scores[k], peptide_score), 2)]
    IN  <<new_aa, RatSub(peptide_score, RatInt(1))>>

\* A variant that subtracts the penalty before the amino acid scores are
\* averaged with the peptide score.
_aa_pep_score_penalty_first(aa_scores, fits_precursor_mz) ==
    LET peptide_score == IF fits_precursor_mz THEN mean(aa_scores)
                         ELSE RatSub(mean(aa_scores), RatInt(1))
        new_aa == [k \in 1 .. Len(aa_scores) |->
                      RatDivInt(RatAdd(aa_scores[k], peptide_score), 2)]
    IN  <<new_aa, peptide_score>>

\* _aa_pep_score: <<aa_scores, peptide_score>>.
_aa_pep_score(aa_scores, fits_precursor_mz) ==
    LET peptide_score == mean(aa_scores)
        new_aa == [k \in 1 .. Len(aa_scores) |->
                      RatDivInt(RatAdd(aa_scores[k], peptide_score), 2)]
    IN  <<new_aa,
          IF fits_precursor_mz THEN peptide_score
          ELSE RatSub(peptide_score, RatInt(1))>>

(***************************************************************************)
(* The cache entries and their order.  An entry is the tuple               *)
(* (peptide_score, aa_scores, pred_peptide).  Python compares two tuples   *)
(* by their first unequal components; comparing two arrays or tensors      *)
(* gives an element-wise result whose truth value raises ValueError        *)
(* unless it has exactly one element.                                      *)
(***************************************************************************)
Entry(sc, aa, pep) == [peptide_score |-> sc, aa_scores |-> aa, pred_peptide |-> pep]

\* The comparison of two entries raises.
CompareRaises(x, y) ==
    /\ RatEQ(x.peptide_score, y.peptide_score)
    /\ ~(Len(x.aa_scores) = 1 /\ Len(y.aa_scores) = 1)

\* x < y, when the comparison does not raise.
EntryLT(x, y) ==
    IF ~RatEQ(x.peptide_score, y.peptide_score)
    THEN RatLT(x.peptide_score, y.peptide_score)
    ELSE IF ~RatEQ(x.aa_scores[1], y.aa_scores[1])
         THEN RatLT(x.aa_scores[1], y.aa_scores[1])
         ELSE x.pred_peptide[1] < y.pred_peptide[1]

\* Heaps are 1-based sequences here; heapq position k is index k + 1.
\* Every heap operation returns [heap, raised].
Swap(h, a, b) == [h EXCEPT ![a] = h[b], ![b] = h[a]]

\* heapq._siftdown(heap, startpos, pos): move the item at pos up while it
\* is smaller than its parent, not beyond startpos.
RECURSIVE _siftdown(_, _, _)
_siftdown(h, startpos, pos) ==
    IF pos <= startpos THEN [heap |-> h, raised |-> FALSE]
    ELSE LET parent == pos \div 2
         IN  IF CompareRaises(h[pos], h[parent])
             THEN [heap |-> h, raised |-> TRUE]
             ELSE IF EntryLT(h[pos], h[parent])
                  THEN _siftdown(Swap(h, pos, parent), startpos, parent)
                  ELSE [heap |-> h, raised |-> FALSE]

\* The loop of heapq._siftup: bubble the smaller child up until a leaf is
\* hit, then sift the item down (towards startpos) into place.
RECURSIVE siftup_loop(_, _, _)
siftup_loop(h, startpos, pos) ==
    LET child == 2 * pos
        right == child + 1
    IN  IF child > Len(h) THEN _siftdown(h, startpos, pos)
        ELSE IF right <= Len(h) /\ CompareRaises(h[child], h[right])
             THEN [heap |-> h, raised |-> TRUE]
             ELSE LET c == IF right <= Len(h) /\ ~EntryLT(h[child], h[right])
                           THEN right ELSE child
                  IN  siftup_loop(Swap(h, pos, c), startpos, c)

_siftup(h, pos) == siftup_loop(h, pos, pos)

heappush(h, item) == _siftdown(Append(h, item), 1, Len(h) + 1)

\* A variant that replaces the smallest entry whatever the item is.
heappushpop_always(h, item) ==
    IF h = <<>> THEN [heap |-> h, raised |-> FALSE]
    ELSE _siftup([h EXCEPT ![1] = item], 1)

heappushpop(h, item) ==
    IF h = <<>> THEN [heap |-> h, raised |-> FALSE]
    ELSE IF CompareRaises(h[1], item) THEN [heap |-> h, raised |-> TRUE]
    ELSE IF EntryLT(h[1], item) THEN _siftup([h EXCEPT ![1] = item], 1)
    ELSE [heap |-> h, raised |-> FALSE]

\* heapq.heapify: _siftup at the positions len // 2 - 1 down to 0.
RECURSIVE heapify_from(_, _)
heapify_from(h, pos) ==
    IF pos < 1 THEN [heap |-> h, raised |-> FALSE]
    ELSE LET r == _siftup(h, pos)
         IN  IF r.raised THEN r ELSE heapify_from(r.heap, pos - 1)

heapify(h) == heapify_from(h, Len(h) \div 2)

\* max(iterable): the first of the largest items; raised when a comparison
\* of the running maximum with the next item raises.
RECURSIVE MaxFrom(_, _, _)
MaxFrom(h, k, best) ==
    IF k > Len(h) THEN [list |-> <<best>>, raised |-> FALSE]
    ELSE IF CompareRaises(h[k], best) THEN [list |-> <<>>, raised |-> TRUE]
    ELSE MaxFrom(h, k + 1, IF EntryLT(best, h[k]) THEN h[k] ELSE best)

\* list.sort of CPython for fewer than 64 items: the run at the front of
\* the list (count_run: strictly descending, then reversed, or
\* non-descending), and a binary insertion of the items after it.
\* The end of the run whose last known item is s[k].
RECURSIVE run_end(_, _, _)
run_end(s, k, descending) ==
    IF k = Len(s) THEN [n |-> k, raised |-> FALSE]
    ELSE IF CompareRaises(s[k + 1], s[k]) THEN [n |-> k, raised |-> TRUE]
    ELSE IF EntryLT(s[k + 1], s[k]) = descending THEN run_end(s, k + 1, descending)
    ELSE [n |-> k, raised |-> FALSE]

count_run(s) ==
    IF CompareRaises(s[2], s[1])
    THEN [n |-> 1, descending |-> FALSE, raised |-> TRUE]
    ELSE LET r == run_end(s, 2, EntryLT(s[2], s[1]))
         IN  [n |-> r.n, descending |-> EntryLT(s[2], s[1]), raised |-> r.raised]

\* The place of pivot among the sorted items s[l .. r - 1]: after every item
\* it is not smaller than.
RECURSIVE bisect(_, _, _, _)
bisect(s, pivot, l, r) ==
    IF l >= r THEN [pos |-> l, raised |-> FALSE]
    ELSE LET p == l + ((r - l) \div 2)
         IN  IF CompareRaises(pivot, s[p]) THEN [pos |-> l, raised |-> TRUE]
             ELSE IF EntryLT(pivot, s[p]) THEN bisect(s, pivot, l, p)
             ELSE bisect(s, pivot, p + 1, r)

\* binarysort: s[1 .. start - 1] is sorted; insert s[start], s[start + 1], ...
RECURSIVE binarysort(_, _)
binarysort(s, start) ==
    IF start > Len(s) THEN [list |-> s, raised |-> FALSE]
    ELSE LET b == bisect(s, s[start], 1, start)
         IN  IF b.raised THEN [list |-> <<>>, raised |-> TRUE]
             ELSE binarysort(SubSeq(s, 1, b.pos - 1) \o <<s[start]>>
                                 \o SubSeq(s, b.pos, start - 1)
                                 \o SubSeq(s, start + 1, Len(s)),
                             start + 1)

\* sorted(iterable, reverse=True), and list.sort(reverse=True): the list is
\* reversed, sorted, and reversed again.
SortedDesc(h) ==
    IF Len(h) < 2 THEN [list |-> h, raised |-> FALSE]
    ELSE LET r == Reverse(h)
             c == count_run(r)
             run == IF c.descending
                    THEN Reverse(SubSeq(r, 1, c.n)) \o SubSeq(r, c.n + 1, Len(r))
                    ELSE r
             b == binarysort(run, c.n + 1)
         IN  IF c.raised \/ b.raised THEN [list |-> <<>>, raised |-> TRUE]
             ELSE [list |-> Reverse(b.list), raised |-> FALSE]

\* The loop of heapq.nlargest for 1 < n < len: res is the heap of the n
\* largest items so far, h[k] the next item.
RECURSIVE nlargest_scan(_, _, _)
nlargest_scan(res, h, k) ==
    IF k > Len(h) THEN [heap |-> res, raised |-> FALSE]
    ELSE IF CompareRaises(res[1], h[k]) THEN [heap |-> res, raised |-> TRUE]
    ELSE IF EntryLT(res[1], h[k])
         THEN LET r == _siftup([res EXCEPT ![1] = h[k]], 1)
              IN  IF r.raised THEN r ELSE nlargest_scan(r.heap, h, k + 1)
         ELSE nlargest_scan(res, h, k + 1)

Take(s, n) == SubSeq(s, 1, IF n < Len(s) THEN n ELSE Len(s))

\* heapq.nlargest(n, peptides): max for n = 1, sorted for n >= len, and
\* else a heap of the first n items that the other items replace the
\* smallest of, sorted at the end.  (The items of a cache never compare
\* equal, so the insertion order heapq adds to them decides nothing.)
nlargest(n, h) ==
    IF h = <<>> \/ n <= 0 THEN [list |-> <<>>, raised |-> FALSE]
    ELSE IF n = 1 THEN MaxFrom(h, 2, h[1])
    ELSE IF n >= Len(h)
         THEN LET r == SortedDesc(h)
              IN  [list |-> Take(r.list, n), raised |-> r.raised]
    ELSE LET f == heapify(SubSeq(h, 1, n))
             g == IF f.raised THEN f ELSE nlargest_scan(f.heap, h, n + 1)
             r == IF g.raised THEN [list |-> <<>>, raised |-> TRUE]
                  ELSE SortedDesc(g.heap)
         IN  r

(***************************************************************************)
(* torch.topk.  A key is <<a, b>> and stands for the number a + b * 1e-8   *)
(* (the mask value of the padding token); with the logits of this model    *)
(* |b| * 1e-8 is smaller than any non-zero difference of two a's, so the   *)
(* order of the numbers is the lexicographic order of the keys.  The order *)
(* among equal values is not specified by torch: any of them may be        *)
(* returned.                                                               *)
(***************************************************************************)
KeyLT(x, y) == RatLT(x[1], y[1]) \/ (x[1] = y[1] /\ RatLT(x[2], y[2]))

\* A variant that may return an index more than once.
topk_with_repeats(keys, k) ==
    {sel \in [1 .. k -> 0 .. (Len(keys) - 1)] :
        /\ \A a, b \in 1 .. k : a < b =>
              ~KeyLT(keys[sel[a] + 1], keys[sel[b] + 1])
        /\ \A j \in 0 .. (Len(keys) - 1) :
              (\A a \in 1 .. k : sel[a] # j) =>
                  \A a \in 1 .. k : ~KeyLT(keys[sel[a] + 1], keys[j + 1])}

\* The index sequences topk may return for the keys keys[1 .. n], which are
\* the values at the indices 0 .. n - 1.
topk(keys, k) ==
    {sel \in [1 .. k -> 0 .. (Len(keys) - 1)] :
        /\ \A a, b \in 1 .. k : a < b =>
              sel[a] # sel[b] /\ ~KeyLT(keys[sel[a] + 1], keys[sel[b] + 1])
        /\ \A j \in 0 .. (Len(keys) - 1) :
              (\A a \in 1 .. k : sel[a] # j) =>
                  \A a \in 1 .. k : ~KeyLT(keys[sel[a] + 1], keys[j + 1])}

(***************************************************************************)
(* _get_topk_beams, for the next step t.                                   *)
(***************************************************************************)
\* The non-NaN entries of step_scores[b, 0 .. t, v * beam + s]: the scores of
\* the tokens beam k holds at positions < t, and of token v at position t.
step_scores(toks, scs, k, v, t) ==
    LET at(l) == IF l < t THEN toks[k][l] ELSE v
        seen == SelectSeq([l \in 1 .. (t + 1) |-> l - 1],
                          LAMBDA l : scs[k][l] # NaNRow)
    IN  [n \in 1 .. Len(seen) |-> RatInt(Logit(scs[k][seen[n]], at(seen[n])))]

nanmean(xs) == IF xs = <<>> THEN NaN ELSE mean(xs)

\* step_scores.nanmean(dim=1) * active_mask at flat index j = v * beam + s of
\* spectrum b: the mask is 1e-8 for the padding token, else 0 for a finished
\* beam and 1 for an active one.
masked_score(toks, scs, fin, b, j, t) ==
    LET v == j \div n_beams
        k == b * n_beams + (j % n_beams)
        m == nanmean(step_scores(toks, scs, k, v, t))
    IN  IF v = pad_token THEN <<RatInt(0), m>>
        ELSE IF fin[k] THEN <<RatInt(0), RatInt(0)>>
        ELSE <<m, RatInt(0)>>

\* The masked scores of spectrum b at the flat indices j .. vocab * beam - 1.
RECURSIVE masked_scores(_, _, _, _, _, _)
masked_scores(toks, scs, fin, b, j, t) ==
    IF j = vocab * n_beams THEN <<>>
    ELSE <<masked_score(toks, scs, fin, b, j, t)>>
             \o masked_scores(toks, scs, fin, b, j + 1, t)

top_idx_choices(toks, scs, fin, b, t) ==
    topk(masked_scores(toks, scs, fin, b, 0, t), n_beams)

\* top_idx for the spectra b .. batch - 1: one choice per spectrum, as a
\* sequence.
RECURSIVE top_idx_from(_, _, _, _, _)
top_idx_from(toks, scs, fin, b, t) ==
    IF b = batch THEN {<<>>}
    ELSE {<<sel>> \o rest : sel \in top_idx_choices(toks, scs, fin, b, t),
                            rest \in top_idx_from(toks, scs, fin, b + 1, t)}

\* v_idx and s_idx of np.unravel_index(top_idx, (vocab, beam)) for the slot
\* k of its spectrum, and the flat index of the beam it continues.
v_idx(top, k) == top[(k \div n_beams) + 1][(k % n_beams) + 1] \div n_beams
s_idx(top, k) == top[(k \div n_beams) + 1][(k % n_beams) + 1] % n_beams
source_beam(top, k) == (k \div n_beams) * n_beams + s_idx(top, k)

\* The token rows and the score rows after recording the chosen decodings.
topk_tokens(toks, top, t) ==
    [k \in Beams |->
        [p \in Positions |->
            IF p < t THEN toks[source_beam(top, k)][p]
            ELSE IF p = t THEN v_idx(top, k)
            ELSE toks[k][p]]]

topk_scores(scs, top, t) ==
    [k \in Beams |->
        [p \in Positions |->
            IF p <= t THEN scs[source_beam(top, k)][p] ELSE scs[k][p]]]

(***************************************************************************)
(* _cache_finished_beams, one beam.                                        *)
(***************************************************************************)
pred_tokens_of(toks, st, k) == Prefix(toks[k], st + 1)
has_stop_token(toks, st, k) == Last(pred_tokens_of(toks, st, k)) = stop_token
pred_peptide_of(toks, st, k) ==
    IF has_stop_token(toks, st, k) THEN Front(pred_tokens_of(toks, st, k))
    ELSE pred_tokens_of(toks, st, k)

\* Variant of already_cached that never finds the peptide;
\* C2_NoDuplicatePeptides does not hold of it.
already_cached_never(cache, toks, st, k) == FALSE

\* Variant of already_cached that looks for pred_tokens, stop token
\* included, instead of pred_peptide; C7_DuplicateSkipped does not hold of it.
already_cached_with_stop(cache, toks, st, k) ==
    \E n \in 1 .. Len(cache[spec_idx_of(k)]) :
        cache[spec_idx_of(k)][n].pred_peptide = pred_tokens_of(toks, st, k)

already_cached(cache, toks, st, k) ==
    \E n \in 1 .. Len(cache[spec_idx_of(k)]) :
        cache[spec_idx_of(k)][n].pred_peptide = pred_peptide_of(toks, st, k)

\* A variant that appends no score for a missing stop token.
raw_aa_scores_no_stop_slot(toks, scs, st, k) ==
    [p \in 1 .. (st + 1) |-> softmax(scs[k][p - 1], toks[k][p - 1])]

\* smx[0, range(len(pred_tokens)), pred_tokens], with the explicit 0 of a
\* missing stop token.
raw_aa_scores(toks, scs, st, k) ==
    LET smx == [p \in 1 .. (st + 1) |-> softmax(scs[k][p - 1], toks[k][p - 1])]
    IN  IF has_stop_token(toks, st, k) THEN smx ELSE Append(smx, RatInt(0))

\* A variant that keeps the last score (the slot of the stop token).
cache_entry_keep_stop_slot(toks, scs, st, k, fits) ==
    LET r == _aa_pep_score(raw_aa_scores(toks, scs, st, k), fits)
    IN  Entry(r[2], r[1], pred_peptide_of(toks, st, k))

\* The tuple pushed for beam k.
cache_entry(toks, scs, st, k, fits) ==
    LET r == _aa_pep_score(raw_aa_scores(toks, scs, st, k), fits)
    IN  Entry(r[2], Front(r[1]), pred_peptide_of(toks, st, k))

\* A variant that leaves a cache of n_beams entries as it is.
heapadd_drop_when_full(h, item) ==
    IF Len(h) < n_beams THEN heappush(h, item) ELSE [heap |-> h, raised |-> FALSE]

\* Variant of heapadd that always pushes; C1_CacheBounded does not hold of it.
heapadd_unbounded(h, item) == heappush(h, item)

\* Lines 543-550: heappush below n_beams entries, heappushpop at n_beams.
heapadd(h, item) ==
    IF Len(h) < n_beams THEN heappush(h, item) ELSE heappushpop(h, item)

(***************************************************************************)
(* The decoder (external scorer).  Each call returns, per beam and         *)
(* position, one row of logits over <<pad, G, X, Y, $>>; the rows it may   *)
(* return for the beams of spectrum b are Rows(b).                         *)
(***************************************************************************)
RowG == <<-1, 2, -1, 0, 1>>
RowStop == <<-1, 1, -1, 0, 2>>
RowNeg == <<-4, -3, -1, -2, -4>>
RowNegG == <<-4, -1, -3, -2, -4>>
RowFlat == <<-1, 0, 0, 0, -1>>
RowEnd == <<1, -1, -1, 0, 2>>
RowGX == <<-1, 1, 1, 0, -1>>
Rows(b) == hparams.rows[b + 1]
AllRows == UNION {Rows(b) : b \in Spectra}
BeamRows(S) == {f \in [S -> AllRows] : \A k \in S : f[k] \in Rows(spec_idx_of(k))}

(***************************************************************************)
(* Inputs: hyper-parameters and precursors of one decode call.             *)
(***************************************************************************)
\* Precursor m/z of the peptide GG at charge 1, of GG at charge 2 observed
\* one isotope peak up, and a precursor lighter than any residue.
PrecGG == [charge |-> 1, mz |-> 13306076]
PrecGGIso == [charge |-> 2, mz |-> 6753569]
PrecLight == [charge |-> 1, mz |-> 5000000]
\* A precursor between the m/z of G with -18.011 (58.02874) and of G with
\* -17.027 (59.01275).
PrecBetween == [charge |-> 1, mz |-> 5850000]
\* A precursor above the m/z of G with -17.027 (59.01275) and below those of
\* G G and of G +42.011 with -17.027 appended.
PrecShort == [charge |-> 1, mz |-> 7500000]

HParams(b, s, len, ml, tm, res, rws) ==
    [batch |-> b, n_beams |-> s, max_length |-> len,
     min_peptide_len |-> ml, top_match |-> tm, precursor_mass_tol |-> 50,
     isotope_error_range |-> <<0, 1>>, residues |-> res, rows |-> rws]

\* The decode calls of the model: <<hparams, precursors>>, with one, two
\* and three beams, one and two spectra, with and without negative-mass
\* residues, and top_match below, at and above the size a cache can reach.
\* The calls with three beams have max_length one below the others.  The
\* constructor checks none of its arguments (lines 160-166), so the last
\* call is on a model constructed with max_length < min_peptide_len.
Inputs ==
    {<<HParams(1, 2, MaxLength, 1, 2, VocabNeg, <<{RowG, RowStop, RowNeg, RowNegG}>>), <<PrecGG>>>>,
     <<HParams(1, 2, MaxLength, 2, 1, VocabNeg, <<{RowG, RowStop, RowNegG}>>), <<PrecGGIso>>>>,
     <<HParams(1, 2, MaxLength, 1, 2, VocabNeg, <<{RowNegG, RowG, RowStop}>>), <<PrecLight>>>>,
     <<HParams(1, 2, MaxLength, 2, 2, VocabNeg2, <<{RowNegG, RowStop, RowG}>>), <<PrecLight>>>>,
     <<HParams(1, 2, MaxLength, 2, 1, VocabPlain, <<{RowG, RowStop, RowNeg}>>), <<PrecGG>>>>,
     <<HParams(1, 1, MaxLength, 1, 1, VocabNeg, <<{RowG, RowStop, RowNegG}>>), <<PrecGGIso>>>>,
     <<HParams(1, 1, MaxLength, 2, 1, VocabPlain, <<{RowFlat, RowStop}>>), <<PrecGG>>>>,
     <<HParams(2, 1, MaxLength, 1, 1, VocabNeg, <<{RowG, RowStop, RowNegG}, {RowG, RowStop, RowNegG}>>),
       <<PrecGG, PrecLight>>>>,
     <<HParams(2, 2, MaxLength, 1, 2, VocabNeg, <<{RowEnd}, {RowNegG, RowStop}>>),
       <<PrecGG, PrecLight>>>>,
     <<HParams(2, 2, MaxLength, 2, 2, VocabNeg, <<{RowG, RowStop}, {RowG, RowStop}>>),
       <<PrecGG, PrecGG>>>>,
     <<HParams(1, 3, MaxLength - 1, 1, 3, VocabNeg, <<{RowNegG, RowStop}>>), <<PrecLight>>>>,
     <<HParams(1, 3, MaxLength - 1, 1, 2, VocabNeg, <<{RowNegG}>>), <<PrecLight>>>>,
     <<HParams(1, 1, MaxLength - 1, MaxLength, 1, VocabPlain, <<{RowG, RowStop}>>), <<PrecGG>>>>,
     <<HParams(1, 1, MaxLength - 1, 1, 1, VocabNeg2, <<{RowG}>>), <<PrecBetween>>>>,
     <<HParams(1, 2, MaxLength - 1, 1, 2, VocabNeg, <<{RowG, RowGX}>>), <<PrecShort>>>>}

Init ==
    /\ \E inp \in Inputs :
          /\ hparams = inp[1]
          /\ precursors = [b \in 0 .. (inp[1].batch - 1) |-> inp[2][b + 1]]
    /\ tokens = [k \in Beams |-> [p \in Positions |-> 0]]
    /\ scores = [k \in Beams |-> [p \in Positions |-> NaNRow]]
    /\ pred_cache = [b \in Spectra |-> <<>>]
    /\ finished_beams = [k \in Beams |-> FALSE]
    /\ beam_fits_precursor = [k \in Beams |-> FALSE]
    /\ discarded_beams = [k \in Beams |-> FALSE]
    /\ pc = "first"
    /\ step = 0
    /\ i = 0
    /\ result = <<>>
    /\ n_decoder_calls = 0
    /\ n_finish_calls = 0
    /\ offered = [b \in Spectra |-> <<>>]
    /\ skipped = [b \in Spectra |-> <<>>]
    /\ source_finished = [k \in Beams |-> FALSE]
    /\ stopped = [b \in Spectra |-> FALSE]

(***************************************************************************)
(* beam_search_decode                                                      *)
(***************************************************************************)
\* Lines 257-267: the first prediction seeds the beams of every spectrum with
\* the top n_beams tokens of its first row.
first_keys(row) == [n \in 1 .. vocab |-> <<RatInt(row[n]), RatInt(0)>>]
\* torch.topk(pred[:, 0, :], beam) for the spectra b .. batch - 1.
RECURSIVE first_top_from(_, _)
first_top_from(pred, b) ==
    IF b = batch THEN {<<>>}
    ELSE {<<sel>> \o rest : sel \in topk(first_keys(pred[b]), n_beams),
                            rest \in first_top_from(pred, b + 1)}
FirstPrediction ==
    /\ pc = "first"
    /\ \E pred \in {f \in [Spectra -> AllRows] : \A b \in Spectra : f[b] \in Rows(b)} :
       \E top \in first_top_from(pred, 0) :
          /\ tokens' = [k \in Beams |-> [p \in Positions |->
                           IF p = 0 THEN top[(k \div n_beams) + 1][(k % n_beams) + 1]
                           ELSE 0]]
          /\ scores' = [k \in Beams |-> [p \in Positions |->
                           IF p = 0 THEN pred[k \div n_beams] ELSE NaNRow]]
    /\ n_decoder_calls' = n_decoder_calls + 1
    /\ pc' = "finish"
    /\ UNCHANGED <<hparams, precursors, pred_cache, finished_beams,
                   beam_fits_precursor, discarded_beams, step, i, result,
                   n_finish_calls, offered, skipped, source_finished, stopped>>

\* Lines 273-277: _finish_beams(tokens, precursors, step).
FinishBeams ==
    /\ pc = "finish"
    /\ finished_beams' = [k \in Beams |-> finished_of(tokens, step, k)]
    /\ beam_fits_precursor' = [k \in Beams |-> fits_of(tokens, step, k)]
    /\ discarded_beams' = [k \in Beams |-> discarded_of(tokens, step, k)]
    /\ n_finish_calls' = n_finish_calls + 1
    /\ pc' = "cache"
    /\ i' = 0
    /\ UNCHANGED <<hparams, precursors, tokens, scores, pred_cache, step,
                   result, n_decoder_calls, offered, skipped, source_finished, stopped>>

\* beams_to_cache[i] of line 284.
beams_to_cache(k) == finished_beams[k] /\ ~discarded_beams[k]

\* Lines 510-550: one iteration of the loop of _cache_finished_beams.
CacheBeam ==
    /\ pc = "cache"
    /\ i < batch * n_beams
    /\ IF ~beams_to_cache(i)
       THEN /\ i' = i + 1
            /\ UNCHANGED <<pred_cache, pc, offered, skipped, source_finished, stopped>>
       ELSE IF already_cached(pred_cache, tokens, step, i)
       THEN /\ i' = i + 1
            /\ skipped' = [skipped EXCEPT ![spec_idx_of(i)] =
                              Append(@, pred_peptide_of(tokens, step, i))]
            /\ UNCHANGED <<pred_cache, pc, offered>>
       ELSE LET item == cache_entry(tokens, scores, step, i, beam_fits_precursor[i])
                r == heapadd(pred_cache[spec_idx_of(i)], item)
            IN  /\ pred_cache' = [pred_cache EXCEPT ![spec_idx_of(i)] = r.heap]
                /\ pc' = IF r.raised THEN "error" ELSE "cache"
                /\ i' = IF r.raised THEN i ELSE i + 1
                /\ offered' = [offered EXCEPT ![spec_idx_of(i)] = Append(@, item)]
                /\ UNCHANGED skipped
    /\ UNCHANGED <<hparams, precursors, tokens, scores, finished_beams,
                   beam_fits_precursor, discarded_beams, step, result,
                   n_decoder_calls, n_finish_calls, source_finished, stopped>>

\* A variant that leaves the loop as soon as all beams of one spectrum are
\* finished or discarded.
CheckFinished_any_spectrum ==
    /\ pc = "cache"
    /\ i = batch * n_beams
    /\ finished_beams' = [k \in Beams |-> finished_beams[k] \/ discarded_beams[k]]
    /\ pc' = IF \E b \in Spectra : \A k \in Beams :
                    spec_idx_of(k) = b => finished_beams[k] \/ discarded_beams[k]
             THEN "top_peptide" ELSE "decoder"
    /\ stopped' = [b \in Spectra |->
                       \/ stopped[b]
                       \/ \A k \in Beams : spec_idx_of(k) = b =>
                              finished_beams[k] \/ discarded_beams[k]]
    /\ UNCHANGED <<hparams, precursors, tokens, scores, pred_cache,
                   beam_fits_precursor, discarded_beams, step, i, result,
                   n_decoder_calls, n_finish_calls, offered, skipped, source_finished>>

\* Lines 291-293: finished_beams |= discarded_beams; stop when all are.
CheckFinished ==
    /\ pc = "cache"
    /\ i = batch * n_beams
    /\ finished_beams' = [k \in Beams |-> finished_beams[k] \/ discarded_beams[k]]
    /\ pc' = IF \A k \in Beams : finished_beams[k] \/ discarded_beams[k]
             THEN "top_peptide" ELSE "decoder"
    /\ stopped' = [b \in Spectra |->
                       \/ stopped[b]
                       \/ \A k \in Beams : spec_idx_of(k) = b =>
                              finished_beams[k] \/ discarded_beams[k]]
    /\ UNCHANGED <<hparams, precursors, tokens, scores, pred_cache,
                   beam_fits_precursor, discarded_beams, step, i, result,
                   n_decoder_calls, n_finish_calls, offered, skipped, source_finished>>

\* Lines 295-300: the decoder scores positions 0 .. step + 1 of the beams
\* that are not finished.  The decoder is deterministic and causal: a
\* position it has scored before for this prefix gets the same row again;
\* position step + 1, and a position of the prefix that was never scored,
\* get a row of its choice.
\* A variant that passes every beam to the decoder.
ActiveBeams_all == Beams

ActiveBeams == {k \in Beams : ~finished_beams[k]}
HoleBeams == {k \in ActiveBeams : \E p \in 0 .. step : scores[k][p] = NaNRow}
Decoder ==
    /\ pc = "decoder"
    /\ \E new \in BeamRows(ActiveBeams) :
       \E hole \in BeamRows(HoleBeams) :
          scores' = [k \in Beams |->
                        IF k \notin ActiveBeams THEN scores[k]
                        ELSE [p \in Positions |->
                                 IF p = step + 1 THEN new[k]
                                 ELSE IF p <= step /\ scores[k][p] = NaNRow
                                      THEN hole[k]
                                      ELSE scores[k][p]]]
    /\ n_decoder_calls' = n_decoder_calls + 1
    /\ pc' = "topk"
    /\ UNCHANGED <<hparams, precursors, tokens, pred_cache, finished_beams,
                   beam_fits_precursor, discarded_beams, step, i, result,
                   n_finish_calls, offered, skipped, source_finished, stopped>>

\* Variant of loop_continues with one more step; C10_LoopBounded does not
\* hold of it.
loop_continues_one_more(st) == st <= max_length

\* Line 270: "for step in range(0, self.max_length)" runs its body for st.
loop_continues(st) == st < max_length

\* Lines 303-305 and the loop header: _get_topk_beams(tokens, scores,
\* finished_beams, batch, step + 1), then the next step.
GetTopkBeams ==
    /\ pc = "topk"
    /\ \E top \in top_idx_from(tokens, scores, finished_beams, 0, step + 1) :
          /\ tokens' = topk_tokens(tokens, top, step + 1)
          /\ scores' = topk_scores(scores, top, step + 1)
          /\ source_finished' = [k \in Beams |-> finished_beams[source_beam(top, k)]]
    /\ step' = step + 1
    /\ pc' = IF loop_continues(step + 1) THEN "finish" ELSE "top_peptide"
    /\ UNCHANGED <<hparams, precursors, pred_cache, finished_beams,
                   beam_fits_precursor, discarded_beams, i, result,
                   n_decoder_calls, n_finish_calls, offered, skipped, stopped>>

\* "".join(decoder.detokenize(pred_tokens)): the names, without the empty
\* ones.
peptide_string(pep) == SelectSeq(detokenize(pep), LAMBDA a : a # pad_token)

\* Lines 309, 666-679: _get_top_peptide(pred_cache).
top_peptides(cache, b) == nlargest(top_match, cache[b])
GetTopPeptide ==
    /\ pc = "top_peptide"
    /\ IF \E b \in Spectra : top_peptides(pred_cache, b).raised
       THEN pc' = "error" /\ UNCHANGED result
       ELSE /\ pc' = "done"
            /\ result' = [b \in Spectra |->
                   [n \in 1 .. Len(top_peptides(pred_cache, b).list) |->
                       LET e == top_peptides(pred_cache, b).list[n]
                       IN  <<e.peptide_score, e.aa_scores,
                             peptide_string(e.pred_peptide)>>]]
    /\ UNCHANGED <<hparams, precursors, tokens, scores, pred_cache,
                   finished_beams, beam_fits_precursor, discarded_beams, step,
                   i, n_decoder_calls, n_finish_calls, offered, skipped, source_finished, stopped>>

Next ==
    \/ FirstPrediction
    \/ FinishBeams
    \/ CacheBeam
    \/ CheckFinished
    \/ Decoder
    \/ GetTopkBeams
    \/ GetTopPeptide

Spec == Init /\ [][Next]_vars

(***************************************************************************)
(* Properties of the decoding, C1 - C10.                                   *)
(***************************************************************************)

\* C1: at every moment each spectrum's cache holds at most n_beams entries.
C1_CacheBounded == \A b \in Spectra : Len(pred_cache[b]) <= n_beams

\* More than n_beams entries were offered to a cache that holds n_beams.
C1_Witness ==
    \E b \in Spectra : Len(offered[b]) > n_beams /\ Len(pred_cache[b]) = n_beams

\* C2: no cache holds two entries with the same peptide token sequence.
C2_NoDuplicatePeptides ==
    \A b \in Spectra :
        \A m, n \in 1 .. Len(pred_cache[b]) :
            m # n => pred_cache[b][m].pred_peptide # pred_cache[b][n].pred_peptide

\* A peptide was skipped as a duplicate in a cache of two entries.
C2_Witness ==
    \E b \in Spectra : skipped[b] # <<>> /\ Len(pred_cache[b]) = 2

\* C3: the list emitted for a spectrum has at most top_match entries, and
\* their peptide scores are in non-increasing order.
C3_TopMatchSorted ==
    pc = "done" =>
        \A b \in Spectra :
            /\ Len(result[b]) <= top_match
            /\ \A m, n \in 1 .. Len(result[b]) :
                   m < n => ~RatLT(result[b][m][1], result[b][n][1])

\* C4: a beam whose finished peptide (stop token excluded) has fewer than
\* min_peptide_len tokens is always discarded and never admitted to a cache,
\* whether it finished on the stop token or on the precursor mass.
C4_MinLengthAlwaysDiscards ==
    /\ pc = "cache" =>
           \A k \in Beams :
               finished_beams[k] /\ peptide_len_of(tokens, step, k) < min_peptide_len
                   => discarded_beams[k]
    /\ \A b \in Spectra :
           \A n \in 1 .. Len(pred_cache[b]) :
               Len(pred_cache[b][n].pred_peptide) >= min_peptide_len

\* C5: when no residue has a negative mass, a beam without a stop token whose
\* m/z exceeds the tolerance for every isotope is force-finished with
\* beam_fits_precursor false, and is cached with the penalised score.
C5_ExceedingBeamForceFinished ==
    (pc = "cache" /\ aa_neg_mass = <<>>) =>
        \A k \in Beams :
            LET p == precursors[spec_idx_of(k)]
                pep == peptide_of(tokens, step, k)
            IN  (/\ ~ends_stop_token(tokens, step, k)
                 /\ ~discarded_beams[k]
                 /\ ~MassKeyError(pep)
                 /\ all_exceed(delta_mass_ppm(PeptideMz(pep, p.charge), p.mz, p.charge)))
                => /\ finished_beams[k]
                   /\ ~beam_fits_precursor[k]
                   /\ i > k =>
                          \/ \E n \in 1 .. Len(offered[spec_idx_of(k)]) :
                                 offered[spec_idx_of(k)][n]
                                     = cache_entry(tokens, scores, step, k, FALSE)
                          \/ \E n \in 1 .. Len(skipped[spec_idx_of(k)]) :
                                 skipped[spec_idx_of(k)][n]
                                     = pred_peptide_of(tokens, step, k)

\* C6 as stated: with one spectrum and n_beams = 1, when the greedy path is
\* the residues r1 .. rk followed by the stop token, the peptide fits the
\* precursor and k >= min_peptide_len, exactly one candidate is emitted, its
\* peptide is r1 .. rk, and its peptide score is the mean of the k residue
\* scores, the stop token's score excluded.
C6_GreedyScoreResiduesOnly ==
    (/\ pc = "done" /\ batch = 1 /\ n_beams = 1 /\ step < max_length
     /\ ends_stop_token(tokens, step, 0)
     /\ \A p \in 0 .. (step - 1) : tokens[0][p] \in Residues
     /\ ~discarded_beams[0] /\ beam_fits_precursor[0]
     /\ step >= 1 /\ step >= min_peptide_len)
    => /\ Len(result[0]) = 1
       /\ result[0][1][3] = peptide_string(Prefix(tokens[0], step))
       /\ result[0][1][1]
              = mean([p \in 1 .. step |-> softmax(scores[0][p - 1], tokens[0][p - 1])])

\* C6: in the same case exactly one candidate is emitted, its peptide is
\* r1 .. rk, and its peptide score is the mean of the k + 1 scores of the
\* residues and of the stop token.
C6_GreedyScore ==
    (/\ pc = "done" /\ batch = 1 /\ n_beams = 1 /\ step < max_length
     /\ ends_stop_token(tokens, step, 0)
     /\ \A p \in 0 .. (step - 1) : tokens[0][p] \in Residues
     /\ ~discarded_beams[0] /\ beam_fits_precursor[0]
     /\ step >= 1 /\ step >= min_peptide_len)
    => /\ Len(result[0]) = 1
       /\ result[0][1][3] = peptide_string(Prefix(tokens[0], step))
       /\ result[0][1][1]
              = mean([p \in 1 .. (step + 1) |->
                         softmax(scores[0][p - 1], tokens[0][p - 1])])

\* A greedy path of two residues and the stop token was emitted, and the
\* stop token's score differs from the mean of the residues' scores.
C6_Witness ==
    /\ pc = "done" /\ batch = 1 /\ n_beams = 1 /\ step = 2
    /\ ends_stop_token(tokens, step, 0)
    /\ \A p \in 0 .. (step - 1) : tokens[0][p] \in Residues
    /\ ~discarded_beams[0] /\ beam_fits_precursor[0]
    /\ step >= min_peptide_len
    /\ Len(result[0]) = 1
    /\ softmax(scores[0][step], stop_token)
           # mean([p \in 1 .. step |-> softmax(scores[0][p - 1], tokens[0][p - 1])])

\* C7: when a beam to cache has a peptide that its spectrum's cache already
\* holds, the admission is skipped and the cache, stored score included, is
\* left as it is, whatever the score of the later copy.
C7_DuplicateSkipped ==
    [][(/\ pc = "cache" /\ i < batch * n_beams /\ beams_to_cache(i)
        /\ \E n \in 1 .. Len(pred_cache[spec_idx_of(i)]) :
               pred_cache[spec_idx_of(i)][n].pred_peptide
                   = pred_peptide_of(tokens, step, i))
       => pred_cache' = pred_cache]_vars

\* The beam just handled was skipped as a duplicate, and the entry it would
\* have made differs from the stored one.
C7_Witness ==
    /\ pc = "cache" /\ i > 0 /\ beams_to_cache(i - 1)
    /\ skipped[spec_idx_of(i - 1)] # <<>>
    /\ Last(skipped[spec_idx_of(i - 1)]) = pred_peptide_of(tokens, step, i - 1)
    /\ \E n \in 1 .. Len(pred_cache[spec_idx_of(i - 1)]) :
           /\ pred_cache[spec_idx_of(i - 1)][n].pred_peptide
                  = pred_peptide_of(tokens, step, i - 1)
           /\ pred_cache[spec_idx_of(i - 1)][n]
                  # cache_entry(tokens, scores, step, i - 1, beam_fits_precursor[i - 1])

\* C9: if no beam of a spectrum is ever finished and not discarded, the
\* decoding of the batch still completes without an error, and the list of
\* that spectrum is empty.
C9_NoCandidateNoError ==
    \A b \in Spectra :
        (offered[b] = <<>> /\ skipped[b] = <<>>)
            => /\ pc # "error"
               /\ pc = "done" => result[b] = <<>>

\* C10: the loop makes at most max_length classification steps and the
\* decoder is called at most max_length + 1 times; the tokens chosen by the
\* last step are never classified or cached.
C10_LoopBounded ==
    /\ n_finish_calls <= max_length
    /\ n_decoder_calls <= max_length + 1
    /\ step <= max_length
    /\ step = max_length => pc \in {"top_peptide", "done", "error"}
    /\ \A b \in Spectra :
           \A n \in 1 .. Len(offered[b]) :
               Len(offered[b][n].pred_peptide) <= max_length

\* The loop ran max_length steps, and a beam that was still active holds a
\* token sequence of which no cache has the peptide.
C10_Witness ==
    /\ pc = "done" /\ step = max_length
    /\ n_finish_calls = max_length /\ n_decoder_calls = max_length + 1
    /\ \E k \in Beams :
           /\ ~finished_beams[k]
           /\ \A p \in Positions : tokens[k][p] \in Residues
           /\ \A n \in 1 .. Len(pred_cache[spec_idx_of(k)]) :
                  pred_cache[spec_idx_of(k)][n].pred_peptide
                      # Prefix(tokens[k], max_length + 1)

(***************************************************************************)
(* Properties of the decoding, C11 - C20.                                  *)
(***************************************************************************)

\* C11: the list of a spectrum is the one it gets when decoded alone.  Alone,
\* the loop ends at the step where all its beams are finished or discarded,
\* so in a batch its cache must not change after that step, however long
\* the other spectra keep the loop running.
C11_StoppedCacheFrozen ==
    [][\A b \in Spectra : stopped[b] => pred_cache'[b] = pred_cache[b]]_vars

\* C12: a model constructed with n_beams < 1 or max_length < min_peptide_len
\* is rejected at construction, so that no step of a decoding (no decoder
\* call, no classification) is ever run with such hyperparameters.
C12_MalformedRejected ==
    (n_beams < 1 \/ max_length < min_peptide_len)
        => n_decoder_calls = 0 /\ n_finish_calls = 0

\* C13: the mass error of (calc, obs, charge, isotope) is
\* (calc - (obs - isotope * 1.00335 / charge)) / obs * 10^6 ppm, for every
\* peptide m/z, precursor and isotope of a classification; it is 0 when
\* calc = obs and isotope = 0, and 10 ppm for calc 100.001, obs 100.0,
\* charge 1, isotope 0.  The formula is written as one fraction over
\* calc[2] * charge * obs; the errors are compared before the factor 10^6.
C13_MassErrorFormula ==
    /\ pc = "cache" =>
           \A k \in Beams :
               LET p == precursors[spec_idx_of(k)]
                   pep == peptide_of(tokens, step, k)
                   calc == PeptideMz(pep, p.charge)
               IN  ~MassKeyError(pep) =>
                       \A iso \in isotope_error_range[1] .. isotope_error_range[2] :
                           _calc_mass_error(calc, p.mz, p.charge, iso)
                               = Rat(calc[1] * p.charge
                                         - (p.mz * p.charge - iso * IsotopeMass) * calc[2],
                                     calc[2] * p.charge * p.mz)
    /\ \A b \in Spectra :
           \A iso \in isotope_error_range[1] .. isotope_error_range[2] :
               LET p == precursors[b]
                   d == _calc_mass_error(RatInt(p.mz), p.mz, p.charge, iso)
               IN  /\ iso = 0 => d = RatInt(0)
                   /\ d = Rat(iso * IsotopeMass, p.charge * p.mz)
    /\ LET d == _calc_mass_error(RatInt(10000100), 10000000, 1, 0)
       IN  d[1] * PpmFactor = 10 * d[2]

\* A classification of a peptide with known residues, for a precursor of
\* charge 2 and the isotopes 0 and 1.
C13_Witness ==
    /\ pc = "cache"
    /\ isotope_error_range = <<0, 1>>
    /\ \E k \in Beams :
           /\ precursors[spec_idx_of(k)].charge = 2
           /\ step >= 1
           /\ ~MassKeyError(peptide_of(tokens, step, k))
           /\ _calc_mass_error(PeptideMz(peptide_of(tokens, step, k), 2),
                               precursors[spec_idx_of(k)].mz, 2, 1)
                  # _calc_mass_error(PeptideMz(peptide_of(tokens, step, k), 2),
                                     precursors[spec_idx_of(k)].mz, 2, 0)

\* C14: when the mass of a beam's peptide cannot be looked up (a token that
\* is no residue), the classification ends without an error, the beam does
\* not fit the precursor and it is not force-finished: it is finished
\* exactly when it ends with the stop token.
C14_LookupFailure ==
    [][pc = "finish" =>
          /\ pc' = "cache"
          /\ \A k \in Beams :
                 (/\ ~discarded_beams'[k]
                  /\ MassKeyError(peptide_of(tokens, step, k)))
                     => /\ ~beam_fits_precursor'[k]
                        /\ finished_beams'[k] = ends_stop_token(tokens, step, k)]_vars

\* A classification with a beam that is not discarded, whose peptide holds a
\* token that is no residue and that does not end with the stop token.
C14_Witness ==
    /\ pc = "cache"
    /\ \E k \in Beams :
           /\ ~discarded_beams[k]
           /\ MassKeyError(peptide_of(tokens, step, k))
           /\ ~ends_stop_token(tokens, step, k)
           /\ ~finished_beams[k]

\* C15: a beam without the stop token that is not discarded becomes finished
\* with beam_fits_precursor true at the step where its peptide as it stands
\* is within the tolerance of the precursor m/z for some isotope.
C15_FittingBeamFinished ==
    pc = "cache" =>
        \A k \in Beams :
            LET p == precursors[spec_idx_of(k)]
                pep == peptide_of(tokens, step, k)
            IN  (/\ ~ends_stop_token(tokens, step, k)
                 /\ ~discarded_beams[k]
                 /\ ~MassKeyError(pep)
                 /\ any_fits(delta_mass_ppm(PeptideMz(pep, p.charge), p.mz, p.charge)))
                => finished_beams[k] /\ beam_fits_precursor[k]

\* C16: a beam without the stop token is force-finished (with
\* beam_fits_precursor false) only when its m/z exceeds the tolerance as it
\* stands or with every residue of negative mass appended, and never while
\* some residue of negative mass appended gives an m/z that does not exceed
\* the tolerance.
C16_ForceFinishOnlyWhenAllExceed ==
    pc = "cache" =>
        \A k \in Beams :
            LET p == precursors[spec_idx_of(k)]
                pep == peptide_of(tokens, step, k)
                exceedsTolerance(seq) ==
                    all_exceed(delta_mass_ppm(PeptideMz(seq, p.charge), p.mz, p.charge))
            IN  (/\ ~ends_stop_token(tokens, step, k)
                 /\ ~discarded_beams[k]
                 /\ finished_beams[k])
                => /\ ~beam_fits_precursor[k]
                   /\ ~MassKeyError(pep)
                   /\ \/ exceedsTolerance(pep)
                      \/ \A n \in 1 .. Len(aa_neg_mass) :
                             exceedsTolerance(Append(pep, aa_neg_mass[n]))
                   /\ ~\E n \in 1 .. Len(aa_neg_mass) :
                          ~exceedsTolerance(Append(pep, aa_neg_mass[n]))

\* C17: for a beam finished by the stop token and not discarded,
\* beam_fits_precursor is true exactly when the mass error of the peptide as
\* it stands is strictly below precursor_mass_tol in absolute value for at
\* least one isotope of the inclusive range; the residues of negative mass
\* play no part.
C17_StopBeamFits ==
    pc = "cache" =>
        \A k \in Beams :
            LET p == precursors[spec_idx_of(k)]
                pep == peptide_of(tokens, step, k)
            IN  (/\ ends_stop_token(tokens, step, k)
                 /\ ~discarded_beams[k]
                 /\ ~MassKeyError(pep))
                => (beam_fits_precursor[k]
                       <=> \E iso \in isotope_error_range[1] .. isotope_error_range[2] :
                               PpmAbsBelow(_calc_mass_error(PeptideMz(pep, p.charge),
                                                            p.mz, p.charge, iso),
                                           precursor_mass_tol))

\* A beam finished by the stop token that fits the precursor for the isotope
\* 1 only, with a residue of negative mass in the vocabulary.
C17_Witness ==
    /\ pc = "cache"
    /\ aa_neg_mass # <<>>
    /\ \E k \in Beams :
           LET p == precursors[spec_idx_of(k)]
               pep == peptide_of(tokens, step, k)
           IN  /\ ends_stop_token(tokens, step, k)
               /\ ~discarded_beams[k]
               /\ ~MassKeyError(pep)
               /\ beam_fits_precursor[k]
               /\ ~PpmAbsBelow(_calc_mass_error(PeptideMz(pep, p.charge),
                                                p.mz, p.charge, 0),
                               precursor_mass_tol)

\* C18: a beam classified finished or discarded at a step stops advancing for
\* good: the continuation selected from it at the next step (and so, step
\* after step, at every later one) has the pad token, and it is not admitted
\* to the cache.  source_finished[k] records that the beam in slot k
\* continues a beam that was finished or discarded when it was selected.
C18_FinishedBeamsStop ==
    (pc \in {"finish", "cache"} /\ step >= 1) =>
        \A k \in Beams :
            source_finished[k] =>
                /\ tokens[k][step] = pad_token
                /\ pc = "cache" => ~beams_to_cache(k)

\* C19: in a selection of continuations, when the beams of a spectrum that
\* are still active have at least n_beams continuations with a token other
\* than pad, no selected continuation of that spectrum extends a beam that is
\* still active with the pad token.
C19_NoPadForActiveBeams ==
    [][pc = "topk" =>
          \A k \in Beams :
              (/\ Cardinality({j \in ActiveBeams : spec_idx_of(j) = spec_idx_of(k)})
                      * (vocab - 1) >= n_beams
               /\ ~source_finished'[k])
                  => tokens'[k][step'] # pad_token]_vars

\* C20: at each selection and for each spectrum whose still active beams
\* have at least n_beams continuations with a token other than pad, the
\* n_beams selected continuations are such continuations, and they are the
\* ones with the highest running mean score (the mean over the positions
\* scored so far): fewer than n_beams of these continuations have a mean
\* above that of a selected one.
C20_TopMeanSelected ==
    [][pc = "topk" =>
          \A b \in Spectra :
              LET cands == {j \in ActiveBeams : spec_idx_of(j) = b}
                               \X (Tokens \ {pad_token})
                  running(c) == nanmean(step_scores(tokens, scores, c[1], c[2], step + 1))
                  selected(k) == nanmean(step_scores(tokens', scores', k,
                                                     tokens'[k][step + 1], step + 1))
              IN  Cardinality(cands) >= n_beams =>
                      \A k \in Beams :
                          spec_idx_of(k) = b =>
                              /\ ~source_finished'[k]
                              /\ tokens'[k][step + 1] # pad_token
                              /\ Cardinality({c \in cands :
                                                 RatLT(selected(k), running(c))})
                                     < n_beams]_vars

(***************************************************************************)
(* Properties of the decoding, C21 - C30.                                  *)
(***************************************************************************)
\* C21: when, at the check that follows the caching of a step, every beam of
\* every spectrum is finished or discarded, the loop ends at that step, and
\* from then on there is no decoder call, no selection of continuations, no
\* classification and no admission to a cache; when a beam is still active
\* the loop goes on with a decoder call, and it is left otherwise only after
\* the selection that brings the step to max_length.
C21_EndsWhenAllStopped ==
    [][/\ (pc = "cache" /\ i = batch * n_beams) =>
              IF \A k \in Beams : finished_beams[k] \/ discarded_beams[k]
              THEN pc' = "top_peptide"
              ELSE pc' = "decoder"
       /\ pc \in {"top_peptide", "done"} =>
              /\ pc' \in {"done", "error"}
              /\ n_decoder_calls' = n_decoder_calls
              /\ n_finish_calls' = n_finish_calls
              /\ tokens' = tokens /\ scores' = scores /\ step' = step
              /\ pred_cache' = pred_cache /\ offered' = offered
       /\ (pc # "top_peptide" /\ pc' = "top_peptide") =>
              \/ pc = "cache" /\ \A k \in Beams : finished_beams[k] \/ discarded_beams[k]
              \/ pc = "topk" /\ step' = max_length]_vars

\* A decoding of two spectra that ended before the last step, with every
\* beam finished or discarded.
C21_Witness ==
    /\ pc = "done"
    /\ batch = 2
    /\ step < max_length - 1
    /\ n_decoder_calls = step + 1
    /\ \A k \in Beams : finished_beams[k]

\* C22: the peptide score of every candidate handed to a cache is the mean
\* of its scores per position, the slot of the stop token included (the
\* score of the stop token when the beam ends with it, a 0 appended when it
\* does not), minus 1 exactly when the beam does not fit the precursor.
C22_PeptideScoreMean ==
    [][\A b \in Spectra :
           offered'[b] # offered[b] =>
               LET e == offered'[b][Len(offered'[b])]
                   per == [p \in 1 .. (step + 1) |->
                              softmax(scores[i][p - 1], tokens[i][p - 1])]
                   slots == IF tokens[i][step] = stop_token
                            THEN per ELSE per \o <<RatInt(0)>>
                   m == RatDivInt(RatSum(slots), Len(slots))
               IN  /\ spec_idx_of(i) = b
                   /\ offered'[b] = Append(offered[b], e)
                   /\ e.peptide_score = IF beam_fits_precursor[i] THEN m
                                        ELSE RatSub(m, RatInt(1))]_vars

\* A cache was handed a beam force-finished without the stop token at a
\* step after the first, with a peptide score that is a number.
C22_Witness ==
    /\ pc = "cache" /\ i > 0 /\ step >= 1
    /\ beams_to_cache(i - 1)
    /\ ~has_stop_token(tokens, step, i - 1)
    /\ ~beam_fits_precursor[i - 1]
    /\ LET o == offered[spec_idx_of(i - 1)]
       IN  /\ o # <<>>
           /\ o[Len(o)] = cache_entry(tokens, scores, step, i - 1, FALSE)
           /\ ~IsNaN(o[Len(o)].peptide_score)

\* C23 as stated: every stored score per residue of a candidate handed to a
\* cache is (raw score + peptide score) / 2, with the peptide score after the
\* penalty for not fitting the precursor, and the slot of the stop token is
\* dropped.
C23_AaScoresAfterPenalty ==
    [][\A b \in Spectra :
           offered'[b] # offered[b] =>
               LET e == offered'[b][Len(offered'[b])]
                   per == [p \in 1 .. (step + 1) |->
                              softmax(scores[i][p - 1], tokens[i][p - 1])]
                   slots == IF tokens[i][step] = stop_token
                            THEN per ELSE per \o <<RatInt(0)>>
               IN  e.aa_scores =
                       [n \in 1 .. (Len(slots) - 1) |->
                           RatDivInt(RatAdd(slots[n], e.peptide_score), 2)]]_vars

\* C23, amended: every stored score per residue is (raw score + mean of the
\* raw scores) / 2, the mean taken over all slots before the penalty is
\* subtracted, and the slot of the stop token is dropped.
C23_AaScoresBeforePenalty ==
    [][\A b \in Spectra :
           offered'[b] # offered[b] =>
               LET e == offered'[b][Len(offered'[b])]
                   per == [p \in 1 .. (step + 1) |->
                              softmax(scores[i][p - 1], tokens[i][p - 1])]
                   slots == IF tokens[i][step] = stop_token
                            THEN per ELSE per \o <<RatInt(0)>>
                   m == RatDivInt(RatSum(slots), Len(slots))
               IN  e.aa_scores =
                       [n \in 1 .. (Len(slots) - 1) |->
                           RatDivInt(RatAdd(slots[n], m), 2)]]_vars

\* A cache was handed a beam that ends with the stop token and does not fit
\* the precursor: its peptide score carries the penalty, and its scores per
\* residue are numbers.
C23_Witness ==
    /\ pc = "cache" /\ i > 0
    /\ beams_to_cache(i - 1)
    /\ has_stop_token(tokens, step, i - 1)
    /\ ~beam_fits_precursor[i - 1]
    /\ LET o == offered[spec_idx_of(i - 1)]
       IN  /\ o # <<>>
           /\ o[Len(o)] = cache_entry(tokens, scores, step, i - 1, FALSE)
           /\ o[Len(o)].aa_scores # <<>>
           /\ ~IsNaN(o[Len(o)].peptide_score)

C26_TiesInsertionOrder ==
    /\ pc # "error"
    /\ pc = "done" =>
           \A b \in Spectra :
               \A m, n \in 1 .. Len(result[b]) :
                   (m < n /\ RatEQ(result[b][m][1], result[b][n][1])) =>
                       \E x, y \in 1 .. Len(offered[b]) :
                           /\ x < y
                           /\ result[b][m] = <<offered[b][x].peptide_score,
                                               offered[b][x].aa_scores,
                                               peptide_string(offered[b][x].pred_peptide)>>
                           /\ result[b][n] = <<offered[b][y].peptide_score,
                                               offered[b][y].aa_scores,
                                               peptide_string(offered[b][y].pred_peptide)>>

\* C27 as stated: at a step above 1 a beam is discarded for an internal
\* modification exactly when an N-terminal modification token is at a
\* position strictly before the final content position minus one; such a
\* token at the final content position minus one alone, with another
\* residue at the final content position, causes no discard.  (A beam is
\* discarded otherwise for the pad token, for two modifications at the end and
\* for a peptide that is too short.)
C27_InternalModsBeforeLastButOne ==
    (pc = "cache" /\ step > 1) =>
        \A k \in Beams :
            discarded_beams[k] <=>
                \/ tokens[k][step] = pad_token
                \/ multiple_mods(tokens, step, k)
                \/ too_short(tokens, step, k)
                \/ \E p \in 0 .. (final_pos(tokens, step, k) - 2) :
                       tokens[k][p] \in n_term

\* C27, amended: at a step above 1 a beam is discarded for an internal
\* modification exactly when an N-terminal modification token is at a
\* position strictly before the final content position, the position just
\* before it included.
C27_InternalModsBeforeLast ==
    (pc = "cache" /\ step > 1) =>
        \A k \in Beams :
            discarded_beams[k] <=>
                \/ tokens[k][step] = pad_token
                \/ multiple_mods(tokens, step, k)
                \/ too_short(tokens, step, k)
                \/ \E p \in 0 .. (final_pos(tokens, step, k) - 1) :
                       tokens[k][p] \in n_term

\* A beam classified at a step above 1 whose only modification token is at
\* the final content position minus one, followed by another token that is
\* not pad: it is discarded.
C27_Witness ==
    /\ pc = "cache" /\ step > 1
    /\ \E k \in Beams :
           LET f == final_pos(tokens, step, k)
           IN  /\ tokens[k][f - 1] \in n_term
               /\ tokens[k][f] \in Residues \ n_term
               /\ tokens[k][step] # pad_token
               /\ \A p \in 0 .. (f - 2) : tokens[k][p] \notin n_term
               /\ ~too_short(tokens, step, k)
               /\ discarded_beams[k]

\* C28: at the steps 0 and 1 no beam is discarded for the place of its
\* modifications: a beam is discarded there only for the pad token or for a
\* peptide that is too short.
C28_NoModRulesBeforeStepTwo ==
    (pc = "cache" /\ step <= 1) =>
        \A k \in Beams :
            discarded_beams[k] <=>
                \/ tokens[k][step] = pad_token
                \/ too_short(tokens, step, k)

\* A beam of two N-terminal modification tokens classified at step 1: it is
\* not discarded.
C28_Witness ==
    /\ pc = "cache" /\ step = 1
    /\ \E k \in Beams :
           /\ tokens[k][0] \in n_term
           /\ tokens[k][1] \in n_term
           /\ ~discarded_beams[k]

\* C29: a beam whose token at the current step is the pad token is
\* classified discarded and not finished (so it is not force-finished by the
\* mass check and does not fit the precursor), and nothing is admitted to a
\* cache for it at that step; a beam finished by the stop token is not
\* discarded for the pad token.
C29_PadDiscarded ==
    [][/\ pc = "finish" =>
              \A k \in Beams :
                  /\ tokens[k][step] = pad_token =>
                         /\ discarded_beams'[k]
                         /\ ~finished_beams'[k]
                         /\ ~beam_fits_precursor'[k]
                  /\ (ends_stop_token(tokens, step, k) /\ finished_beams'[k]) =>
                         tokens[k][step] # pad_token
       /\ (pc = "cache" /\ i < batch * n_beams /\ tokens[i][step] = pad_token) =>
              /\ pred_cache' = pred_cache
              /\ offered' = offered
              /\ skipped' = skipped
              /\ i' = i + 1]_vars

\* The caching went past a beam that has the pad token at a step above 0,
\* after a residue the mass check would force-finish it for.
C29_Witness ==
    /\ pc = "cache" /\ step >= 1
    /\ \E k \in Beams :
           /\ k < i
           /\ tokens[k][step] = pad_token
           /\ tokens[k][step - 1] \in Residues
           /\ discarded_beams[k] /\ ~finished_beams[k]
           /\ aa_neg_mass # <<>>
           /\ \A p \in 0 .. (step - 1) : tokens[k][p] \in Residues
           /\ mass_loop(Prefix(tokens[k], step), <<0>> \o aa_neg_mass, 1, FALSE,
                        precursors[spec_idx_of(k)].charge,
                        precursors[spec_idx_of(k)].mz)[2]

\* C30: the exceed check is one-sided: a beam without the stop token whose
\* m/z, as it stands and with each residue of negative mass appended, is
\* below the precursor m/z by more than the tolerance for some isotope of the
\* range, is not force-finished, however far below it is.
C30_UnderMassNotFinished ==
    pc = "cache" =>
        \A k \in Beams :
            LET p == precursors[spec_idx_of(k)]
                pep == peptide_of(tokens, step, k)
                below(seq) ==
                    \E iso \in isotope_error_range[1] .. isotope_error_range[2] :
                        LET d == _calc_mass_error(PeptideMz(seq, p.charge),
                                                  p.mz, p.charge, iso)
                        IN  PpmAbove(<<-d[1], d[2]>>, precursor_mass_tol)
            IN  (/\ ~ends_stop_token(tokens, step, k)
                 /\ ~discarded_beams[k]
                 /\ ~MassKeyError(pep)
                 /\ below(pep)
                 /\ \A n \in 1 .. Len(aa_neg_mass) : below(Append(pep, aa_neg_mass[n])))
                => ~finished_beams[k]

\* A beam of residues without the stop token, at a step above 0, that is
\* below the precursor m/z by more than a tenth of it for every isotope, with
\* a residue of negative mass in the vocabulary: it is not finished.
C30_Witness ==
    /\ pc = "cache" /\ step >= 1
    /\ aa_neg_mass # <<>>
    /\ \E k \in Beams :
           LET p == precursors[spec_idx_of(k)]
               pep == peptide_of(tokens, step, k)
           IN  /\ ~ends_stop_token(tokens, step, k)
               /\ ~discarded_beams[k]
               /\ ~MassKeyError(pep)
               /\ \A iso \in isotope_error_range[1] .. isotope_error_range[2] :
                      LET d == _calc_mass_error(PeptideMz(pep, p.charge),
                                                p.mz, p.charge, iso)
                      IN  10 * d[1] < -d[2]
               /\ ~finished_beams[k]

(***************************************************************************)
(* Properties of the decoding, C31 - C37.                                  *)
(***************************************************************************)
\* C31: a step of the loop is, in this order, the classification of all
\* beams, the caching of the finished and not discarded ones, the check
\* whether all are finished, exactly one decoder call, and the selection of
\* the continuations; the decoder call writes scores for no beam that is
\* finished or discarded.
C31_StepOrder ==
    [][/\ pc = "finish" => pc' = "cache" /\ i' = 0
       /\ (pc = "cache" /\ i < batch * n_beams) =>
              pc' \in {"cache", "error"} /\ n_finish_calls' = n_finish_calls
       /\ (pc = "cache" /\ i = batch * n_beams) =>
              /\ pc' \in {"decoder", "top_peptide"}
              /\ n_decoder_calls = n_finish_calls
       /\ pc = "decoder" =>
              /\ pc' = "topk"
              /\ n_decoder_calls' = n_decoder_calls + 1
              /\ n_decoder_calls' = n_finish_calls + 1
              /\ \A k \in Beams :
                     (finished_beams[k] \/ discarded_beams[k])
                         => scores'[k] = scores[k]
       /\ pc = "topk" =>
              /\ pc' \in {"finish", "top_peptide"}
              /\ n_decoder_calls' = n_decoder_calls
       /\ pc # "decoder" /\ pc # "first" => n_decoder_calls' = n_decoder_calls
       /\ pc # "finish" => n_finish_calls' = n_finish_calls
       /\ pc # "cache" => pred_cache' = pred_cache]_vars

\* After a decoder call with a finished and an active beam: the active beam
\* has a row at the next position, the finished one has none.
C31_Witness ==
    /\ pc = "topk"
    /\ \E j, k \in Beams :
           /\ finished_beams[j] /\ ~discarded_beams[j]
           /\ ~finished_beams[k]
           /\ scores[j][step + 1] = NaNRow
           /\ scores[k][step + 1] # NaNRow

\* C32: every candidate for a cache that fits the precursor ends with the
\* stop token: a beam force-finished without it never fits the precursor,
\* so that its peptide score is the mean of its scores and an appended 0,
\* minus the penalty 1.
C32_FitsOnlyWithStop ==
    [][/\ pc = "finish" =>
              \A k \in Beams :
                  (finished_beams'[k] /\ ~discarded_beams'[k] /\ beam_fits_precursor'[k])
                      => ends_stop_token(tokens, step, k)
       /\ \A b \in Spectra :
              (offered'[b] # offered[b] /\ tokens[i][step] # stop_token) =>
                  LET e == offered'[b][Len(offered'[b])]
                      per == [p \in 1 .. (step + 1) |->
                                 softmax(scores[i][p - 1], tokens[i][p - 1])]
                      m == RatDivInt(RatSum(per \o <<RatInt(0)>>), step + 2)
                  IN  /\ ~beam_fits_precursor[i]
                      /\ e.peptide_score = RatSub(m, RatInt(1))
                      /\ ~IsNaN(e.peptide_score) =>
                             RatLT(e.peptide_score, RatInt(0))]_vars

\* A cache was handed a beam force-finished without the stop token, with a
\* peptide score below 0, after a candidate without the penalty (a score of
\* 0 or more).
C32_Witness ==
    \E b \in Spectra :
        \E m, n \in 1 .. Len(offered[b]) :
            /\ m < n
            /\ ~RatLT(offered[b][m].peptide_score, RatInt(0))
            /\ ~IsNaN(offered[b][m].peptide_score)
            /\ RatLT(offered[b][n].peptide_score, RatInt(0))
            /\ \E k \in Beams :
                   /\ pc = "cache" /\ k < i /\ spec_idx_of(k) = b
                   /\ beams_to_cache(k)
                   /\ ~has_stop_token(tokens, step, k)
                   /\ offered[b][n] = cache_entry(tokens, scores, step, k, FALSE)

\* C33: after the first prediction and after every selection of
\* continuations, the beams of one spectrum hold pairwise distinct token
\* sequences up to the current step (n_beams does not exceed the size of
\* the vocabulary).
C33_DistinctPrefixes ==
    (pc # "first" /\ n_beams <= vocab) =>
        \A j, k \in Beams :
            (j # k /\ spec_idx_of(j) = spec_idx_of(k)) =>
                Prefix(tokens[j], step + 1) # Prefix(tokens[k], step + 1)

\* After a selection, two beams of a spectrum continue the same beam: they
\* are equal up to the step before and differ in the last token.
C33_Witness ==
    /\ pc = "finish" /\ step >= 1
    /\ \E j, k \in Beams :
           /\ j # k /\ spec_idx_of(j) = spec_idx_of(k)
           /\ Prefix(tokens[j], step) = Prefix(tokens[k], step)
           /\ tokens[j][step] # tokens[k][step]
           /\ tokens[j][step] # pad_token /\ tokens[k][step] # pad_token

\* C34: every peptide handed to a cache holds N-terminal modification
\* tokens at no position other than its last one, at whatever step and for
\* whatever reason (stop token or precursor mass) its beam finished.
C34_NtermModsOnlyLast ==
    \A b \in Spectra :
        \A n \in 1 .. Len(offered[b]) :
            LET pep == offered[b][n].pred_peptide
            IN  \A p \in 1 .. (Len(pep) - 1) : pep[p] \notin n_term

\* C35: every token sequence handed to a cache holds residue tokens only
\* (neither the padding nor the stop token at any position) and at most
\* max_length tokens.
C35_CachedResiduesOnly ==
    \A b \in Spectra :
        \A n \in 1 .. Len(offered[b]) :
            LET pep == offered[b][n].pred_peptide
            IN  /\ Len(pep) <= max_length
                /\ \A p \in 1 .. Len(pep) :
                       pep[p] # pad_token /\ pep[p] # stop_token

\* C36: every candidate handed to a cache, and every candidate a cache
\* holds, has as many per-residue scores as its peptide has tokens, whether
\* its beam ended with the stop token or was finished without it.
C36_ScoresMatchTokens ==
    \A b \in Spectra :
        /\ \A n \in 1 .. Len(offered[b]) :
               Len(offered[b][n].aa_scores) = Len(offered[b][n].pred_peptide)
        /\ \A n \in 1 .. Len(pred_cache[b]) :
               Len(pred_cache[b][n].aa_scores) = Len(pred_cache[b][n].pred_peptide)

\* A cache was handed a candidate of a beam that ended with the stop token
\* (it fits the precursor: no penalty) and, at the current step, a candidate
\* of a beam finished without the stop token, each with one score per token.
C36_Witness ==
    /\ pc = "cache" /\ step >= 1
    /\ \E b \in Spectra :
           \E m, n \in 1 .. Len(offered[b]) :
               /\ m # n
               /\ Len(offered[b][m].aa_scores) >= 1
               /\ ~RatLT(offered[b][m].peptide_score, RatInt(0))
               /\ ~IsNaN(offered[b][m].peptide_score)
               /\ \E k \in Beams :
                      /\ k < i /\ spec_idx_of(k) = b
                      /\ beams_to_cache(k)
                      /\ ~has_stop_token(tokens, step, k)
                      /\ offered[b][n].pred_peptide = pred_peptide_of(tokens, step, k)
                      /\ Len(offered[b][n].aa_scores) = step + 1

\* C37: the admission of the beam with flat index i changes only the cache
\* of the spectrum i div n_beams; the other caches and the token and score
\* buffers of all beams are left as they are by the classification and by
\* the admission.
C37_AdmissionFrame ==
    [][/\ pc = "finish" =>
              /\ tokens' = tokens /\ scores' = scores
              /\ pred_cache' = pred_cache
       /\ (pc = "cache" /\ pc' \in {"cache", "error"}) =>
              /\ tokens' = tokens /\ scores' = scores
              /\ \A b \in Spectra :
                     b # (i \div n_beams) =>
                         /\ pred_cache'[b] = pred_cache[b]
                         /\ offered'[b] = offered[b]]_vars

\* In a batch of two spectra, a beam of the second spectrum was admitted to
\* its cache while the cache of the first spectrum holds a candidate.
C37_Witness ==
    /\ pc = "cache" /\ batch >= 2
    /\ pred_cache[0] # <<>>
    /\ \E k \in Beams :
           /\ k < i /\ (k \div n_beams) = 1
           /\ beams_to_cache(k)
           /\ Len(offered[1]) >= 1
           /\ offered[1][Len(offered[1])] =
                  cache_entry(tokens, scores, step, k, beam_fits_precursor[k])
           /\ \E n \in 1 .. Len(pred_cache[1]) :
                  pred_cache[1][n] = offered[1][Len(offered[1])]

=============================================================================
